---------------------------- MODULE Spec2Model ----------------------------
(***************************************************************************)
(* Order management and trade execution of pytech.trading.blotter.Blotter. *)
(*                                                                         *)
(* The Blotter's own code is src/pytech/trading/blotter.py.  Its           *)
(* collaborators (Order, Trade, OwnedAsset, Portfolio, the commission      *)
(* model) are not part of the sources at hand; they are modelled from      *)
(* their description in spec.md and are marked so where they are defined.  *)
(***************************************************************************)
EXTENDS Integers, Sequences, FiniteSets, TLC

(***************************************************************************)
(* Bounds of the model.                                                    *)
(***************************************************************************)
MaxOrders == 2          \* Order objects constructed by place_order in a run
MaxCalls == 2           \* make_trade calls in a run
StartCash == 3          \* cash of the Portfolio handed to the Blotter
MaxPositionOrders == 1  \* Order objects in a run that calls the position helpers
MaxCash == 4            \* the position helpers are not called above this cash

\* An optional argument or attribute: None, or Some(x).
None == <<>>
Some(x) == <<x>>
NoError == "None"
Tickers == {"FB", "AAPL"}
Prices == {1, 2}
Dates == {1, 2}
\* The trade date is only copied into the Trade.
TradeDates == {1}
Quantities == 0..2

\* A ticker argument: the ticker string itself, or an Asset object carrying it.
Keys == { k \in [form : {"str", "Asset"}, ticker : Tickers] :
            k.form = "Asset" => k.ticker = "AAPL" }

\* len(ticker) of the two ticker strings.
TickerLen(t) == IF t = "FB" THEN Len(<<"F", "B">>) ELSE Len(<<"A", "A", "P", "L">>)

\* The arguments of place_order besides the ticker.  The orders that pass
\* Order's validation are market orders; the stop and limit orders passed
\* lack a price they need, and HOLD is not an action an Order knows.
OrderArgs ==
    { a \in [action : {"BUY", "SELL", "HOLD"},
             order_type : {"MARKET", "STOP", "LIMIT", "STOP_LIMIT"},
             stop : {None, Some(1)},
             limit : {None},
             qty : Quantities] :
        /\ (a.order_type = "MARKET" => a.stop = None)
        /\ (a.order_type = "STOP" => a.stop = None)
        /\ (a.order_type = "LIMIT" => a.stop = None)
        /\ (a.order_type = "STOP_LIMIT" => a.stop # None)
        /\ (a.order_type # "MARKET" => a.action = "BUY" /\ a.qty = 1)
        /\ (a.action = "HOLD" => a.order_type = "MARKET" /\ a.qty = 1) }

VARIABLES
    orders,         \* Blotter.orders: insertion-ordered dict, ticker -> tuple of Orders
    objs,           \* the Order objects constructed so far, by identity
    trades,         \* Blotter.trades
    cash,           \* Blotter.portfolio.cash
    owned_assets,   \* Blotter.portfolio.owned_assets: ticker -> OwnedAsset
    current_dt,     \* Blotter.current_dt
    asset_finder,   \* Blotter._asset_finder: the argument, or an AssetFinder()
    portfolio,      \* Blotter._portfolio: the argument, or a Portfolio()
    last            \* the last call made on the Blotter and how it ended

vars == <<orders, objs, trades, cash, owned_assets, current_dt,
          asset_finder, portfolio, last>>

\* The collaborators, which only the constructor assigns.
collaborators == <<asset_finder, portfolio>>

(***************************************************************************)
(* Order (modelled from spec.md 3 and 4.1).                                *)
(***************************************************************************)
\* Order.__init__: rejects a non-positive quantity, a stop/limit order that
\* lacks the price it needs, and an unknown action.
InvalidOrder(a) ==
    \/ a.qty <= 0
    \/ a.action \notin {"BUY", "SELL"}
    \/ a.order_type \in {"STOP", "STOP_LIMIT"} /\ a.stop = None
    \/ a.order_type \in {"LIMIT", "STOP_LIMIT"} /\ a.limit = None

NewOrder(key, a, created) ==
    [asset |-> key, action |-> a.action, order_type |-> a.order_type,
     stop |-> a.stop, limit |-> a.limit, qty |-> a.qty, created |-> created,
     filled |-> 0, commission |-> 0, open |-> TRUE]

open_amount(o) == o.qty - o.filled

\* Order.get_available_volume: the remaining fillable quantity.
get_available_volume(o, dt) == open_amount(o)

(***************************************************************************)
(* Blotter.orders as an insertion-ordered dict: a sequence of entries      *)
(* [key, val] with distinct keys.                                          *)
(***************************************************************************)
HasKey(d, k) == \E i \in 1..Len(d) : d[i].key = k

Get(d, k) == d[CHOOSE i \in 1..Len(d) : d[i].key = k].val

\* d[k] = v: an existing key keeps its place, a new key goes last.
Put(d, k, v) ==
    IF HasKey(d, k)
    THEN [i \in 1..Len(d) |-> IF d[i].key = k THEN [key |-> k, val |-> v] ELSE d[i]]
    ELSE Append(d, [key |-> k, val |-> v])

\* The Order objects the table holds.
InTable(d) == UNION { {d[i].val[j] : j \in 1..Len(d[i].val)} : i \in 1..Len(d) }

\* How a construction ended, and the types of the arguments it was given.
Constructed(e, finder_arg, portfolio_arg) ==
    [op |-> "__init__", err |-> e, order |-> 0, warned |-> FALSE, checked |-> {},
     args |-> [asset_finder |-> finder_arg, portfolio |-> portfolio_arg]]

\* Blotter(portfolio=p), p a Portfolio with StartCash and no holdings.
Init ==
    /\ orders = <<>>
    /\ objs = <<>>
    /\ trades = <<>>
    /\ cash = StartCash
    /\ owned_assets = [t \in {} |-> None]
    /\ current_dt = None
    /\ asset_finder = "AssetFinder()"
    /\ portfolio = "argument"
    /\ last = Constructed(NoError, "None", "Portfolio")

\* How a call ended: it returned (having logged a warning or not) or raised.
Returned(op, id) ==
    [op |-> op, err |-> NoError, order |-> id, warned |-> FALSE, checked |-> {}]
Warned(op, id) ==
    [op |-> op, err |-> NoError, order |-> id, warned |-> TRUE, checked |-> {}]
Raised(op, e, id) ==
    [op |-> op, err |-> e, order |-> id, warned |-> FALSE, checked |-> {}]

(***************************************************************************)
(* Trade, the commission model and Portfolio.check_liquidity (modelled     *)
(* from spec.md 4.2 to 4.4).                                               *)
(***************************************************************************)
PerOrderFee == 1

\* PerOrderCommissionModel.calculate: a flat fee per order.
calculate(o, execution_price) == PerOrderFee

\* Portfolio.check_liquidity(commission, price_per_share, qty).
check_liquidity(c, commission_cost, price_per_share, qty) ==
    c >= commission_cost + price_per_share * qty

\* Trade.from_order raises InvalidQuantityError on this.
InvalidQuantity(o, trade_date) == get_available_volume(o, trade_date) <= 0

\* Trade.from_order: the fill is the order's available volume.
from_order(id, o, trade_date, execution_price, commission_cost) ==
    [order |-> id, ticker |-> o.asset.ticker, action |-> o.action,
     qty |-> get_available_volume(o, trade_date),
     price |-> execution_price, commission |-> commission_cost,
     trade_date |-> trade_date]

\* Trade.trade_value: the signed cash impact, net of commission.
trade_value(t) ==
    IF t.action = "BUY" THEN 0 - (t.price * t.qty + t.commission)
                        ELSE t.price * t.qty - t.commission

(***************************************************************************)
(* Blotter.__setitem__                                                     *)
(***************************************************************************)
\* An Asset key is replaced by its ticker; a string key is the ticker.
SetItem(d, key, value) ==
    IF key.form = "Asset" THEN Put(d, key.ticker, value) ELSE Put(d, key.ticker, value)

(***************************************************************************)
(* Blotter.place_order                                                     *)
(***************************************************************************)
\* `ticker in self.orders`: the dict is keyed by ticker strings, which an
\* Asset object is not.
KeyInOrders(d, key) == key.form = "str" /\ HasKey(d, key.ticker)

\* place_order making the instrument's table entry before it constructs the
\* Order, so that the entry is written when the Order's validation raises.
place_order_RegistersBeforeValidation(key, a, date_placed) ==
    LET created == IF date_placed = None THEN current_dt ELSE date_placed
        id == Len(objs) + 1
        registered == IF KeyInOrders(orders, key)
                      THEN orders
                      ELSE SetItem(orders, key, <<>>)
    IN IF InvalidOrder(a)
       THEN /\ last' = Raised("place_order", "InvalidOrderError", 0)
            /\ orders' = registered
            /\ UNCHANGED objs
       ELSE /\ objs' = Append(objs, NewOrder(key, a, created))
            /\ orders' = SetItem(registered, key,
                                 Append(Get(registered, key.ticker), id))
            /\ last' = Returned("place_order", id)

place_order(key, a, date_placed) ==
    LET created == IF date_placed = None THEN current_dt ELSE date_placed
        id == Len(objs) + 1
    IN IF InvalidOrder(a)
       THEN /\ last' = Raised("place_order", "InvalidOrderError", 0)
            /\ UNCHANGED <<orders, objs>>
       ELSE /\ objs' = Append(objs, NewOrder(key, a, created))
            /\ orders' = IF KeyInOrders(orders, key)
                         THEN SetItem(orders, key, Append(Get(orders, key.ticker), id))
                         ELSE SetItem(orders, key, <<id>>)
            /\ last' = Returned("place_order", id)

PlaceOrder ==
    \E key \in Keys, a \in OrderArgs, date_placed \in {None} :
        /\ place_order(key, a, date_placed)
        /\ UNCHANGED <<trades, cash, owned_assets, current_dt, collaborators>>

\* The make_trade calls made so far: each adds one fee to its order.
RECURSIVE TotalCommission(_)
TotalCommission(os) ==
    IF os = <<>> THEN 0 ELSE os[1].commission + TotalCommission(Tail(os))

Calls(os) == TotalCommission(os) \div PerOrderFee

(***************************************************************************)
(* Blotter.make_trade                                                      *)
(***************************************************************************)
\* make_trade without the liquidity gate of line 169.
make_trade_NoLiquidityCheck(id, price_per_share, trade_date) ==
    LET order == objs[id]
        commission_cost == calculate(order, price_per_share)
        charged == [order EXCEPT !.commission = @ + commission_cost]
        trade == from_order(id, charged, trade_date, price_per_share, commission_cost)
    IN IF InvalidQuantity(charged, trade_date)
       THEN /\ objs' = [objs EXCEPT ![id] = charged]
            /\ last' = Raised("make_trade", "InvalidQuantityError", id)
            /\ UNCHANGED <<cash, trades>>
       ELSE /\ objs' = [objs EXCEPT ![id] = [charged EXCEPT !.filled = @ + trade.qty]]
            /\ cash' = cash + trade_value(trade)
            /\ trades' = Append(trades, trade)
            /\ last' = Returned("make_trade", id)

\* make_trade filling the order where it charges the commission (line 167),
\* ahead of the gate and of the Trade.
make_trade_FillsWithCommission(id, price_per_share, trade_date) ==
    LET order == objs[id]
        commission_cost == calculate(order, price_per_share)
        charged == [order EXCEPT !.commission = @ + commission_cost,
                                 !.filled = @ + order.qty]
        trade == from_order(id, order, trade_date, price_per_share, commission_cost)
    IN IF check_liquidity(cash, commission_cost, price_per_share, order.qty)
       THEN IF InvalidQuantity(order, trade_date)
            THEN /\ objs' = [objs EXCEPT ![id] = charged]
                 /\ last' = Raised("make_trade", "InvalidQuantityError", id)
                 /\ UNCHANGED <<cash, trades>>
            ELSE /\ objs' = [objs EXCEPT ![id] = charged]
                 /\ cash' = cash + trade_value(trade)
                 /\ trades' = Append(trades, trade)
                 /\ last' = Returned("make_trade", id)
       ELSE /\ objs' = [objs EXCEPT ![id] = charged]
            /\ last' = Warned("make_trade", id)
            /\ UNCHANGED <<cash, trades>>

\* make_trade keeping only the latest Trade: `self.trades = [trade]` in
\* place of the append of line 173.
make_trade_OverwritesHistory(id, price_per_share, trade_date) ==
    LET order == objs[id]
        commission_cost == calculate(order, price_per_share)
        charged == [order EXCEPT !.commission = @ + commission_cost]
        trade == from_order(id, charged, trade_date, price_per_share, commission_cost)
    IN IF check_liquidity(cash, commission_cost, price_per_share, order.qty)
       THEN IF InvalidQuantity(charged, trade_date)
            THEN /\ objs' = [objs EXCEPT ![id] = charged]
                 /\ last' = Raised("make_trade", "InvalidQuantityError", id)
                 /\ UNCHANGED <<cash, trades>>
            ELSE /\ objs' = [objs EXCEPT ![id] =
                                [charged EXCEPT !.filled = @ + trade.qty]]
                 /\ cash' = cash + trade_value(trade)
                 /\ trades' = <<trade>>
                 /\ last' = Returned("make_trade", id)
       ELSE /\ objs' = [objs EXCEPT ![id] = charged]
            /\ last' = Warned("make_trade", id)
            /\ UNCHANGED <<cash, trades>>

make_trade(id, price_per_share, trade_date) ==
    LET order == objs[id]
        commission_cost == calculate(order, price_per_share)
        charged == [order EXCEPT !.commission = @ + commission_cost]
        trade == from_order(id, charged, trade_date, price_per_share, commission_cost)
    IN IF check_liquidity(cash, commission_cost, price_per_share, order.qty)
       THEN IF InvalidQuantity(charged, trade_date)
            THEN /\ objs' = [objs EXCEPT ![id] = charged]
                 /\ last' = Raised("make_trade", "InvalidQuantityError", id)
                 /\ UNCHANGED <<cash, trades>>
            ELSE /\ objs' = [objs EXCEPT ![id] =
                                [charged EXCEPT !.filled = @ + trade.qty]]
                 /\ cash' = cash + trade_value(trade)
                 /\ trades' = Append(trades, trade)
                 /\ last' = Returned("make_trade", id)
       ELSE /\ objs' = [objs EXCEPT ![id] = charged]
            /\ last' = Warned("make_trade", id)
            /\ UNCHANGED <<cash, trades>>

MakeTrade ==
    \E id \in 1..Len(objs), price_per_share \in Prices, trade_date \in TradeDates :
        /\ Calls(objs) < MaxCalls
        /\ make_trade(id, price_per_share, trade_date)
        /\ UNCHANGED <<orders, owned_assets, current_dt, collaborators>>

(***************************************************************************)
(* Blotter.purge_closed_orders                                             *)
(***************************************************************************)
\* `for ticker, asset_orders in self.orders` iterates the keys of the dict
\* and unpacks each key, a ticker string, into two names: a ticker that is
\* not two characters long does not unpack (ValueError); one that is gives
\* two one-character strings, and the first `order` of the inner loop is a
\* string, which has no attribute `open` (AttributeError).  Only an empty
\* table reaches the assignment of line 289.
purge_error(d) ==
    IF d = <<>> THEN NoError
    ELSE IF TickerLen(d[1].key) = Len(<<"ticker", "asset_orders">>)
         THEN "AttributeError"
         ELSE "ValueError"

\* purge_closed_orders rebuilding the table with every instrument's key and
\* none of its orders: the keys are kept, each with an empty tuple.
purge_closed_orders_KeepsEmptyKeys(op) ==
    /\ orders' = [i \in 1..Len(orders) |-> [key |-> orders[i].key, val |-> <<>>]]
    /\ last' = Returned(op, 0)

purge_closed_orders(op) ==
    IF purge_error(orders) = NoError
    THEN /\ orders' = <<>>
         /\ last' = Returned(op, 0)
    ELSE /\ last' = Raised(op, purge_error(orders), 0)
         /\ UNCHANGED orders

PurgeClosedOrders ==
    /\ purge_closed_orders("purge_closed_orders")
    /\ UNCHANGED <<objs, trades, cash, owned_assets, current_dt, collaborators>>

(***************************************************************************)
(* Blotter.check_order_triggers                                            *)
(***************************************************************************)
\* `for order in self.orders.values()`: each value is the tuple of Orders
\* place_order stored, and a tuple has no attribute `check_triggers`, so the
\* first iteration raises AttributeError before any order is checked or
\* traded and before the purge.  With an empty table the loop body never
\* runs and the purge follows.
check_order_triggers(dt, current_price) ==
    IF orders = <<>>
    THEN purge_closed_orders("check_order_triggers")
    ELSE /\ last' = Raised("check_order_triggers", "AttributeError", 0)
         /\ UNCHANGED orders

CheckOrderTriggers ==
    \E dt \in Dates, current_price \in Prices :
        /\ check_order_triggers(dt, current_price)
        /\ UNCHANGED <<objs, trades, cash, owned_assets, current_dt, collaborators>>

(***************************************************************************)
(* OwnedAsset and the Portfolio's holdings (modelled from spec.md 3 and    *)
(* from the quantity convention of blotter.py lines 239 to 241).           *)
(***************************************************************************)
OwnedAsset(ticker, shares_owned, average_share_price, position) ==
    [ticker |-> ticker, shares_owned |-> shares_owned,
     average_share_price |-> average_share_price, position |-> position]

total_position_cost(oa) == oa.shares_owned * oa.average_share_price

\* The spec's OwnedAsset derives both totals from the fields above.
total_position_value(oa) == oa.shares_owned * oa.average_share_price

\* OwnedAsset.make_trade: a positive quantity opens a long position further
\* and closes a short one; the average price is the weighted average of the
\* shares bought into a long position.
owned_asset_make_trade(oa, qty, price_per_share) ==
    IF oa.position = "LONG"
    THEN [oa EXCEPT !.shares_owned = @ + qty,
                    !.average_share_price =
                        IF oa.shares_owned + qty > 0
                        THEN (oa.shares_owned * @ + qty * price_per_share)
                                 \div (oa.shares_owned + qty)
                        ELSE @]
    ELSE [oa EXCEPT !.shares_owned = @ - qty]

\* Portfolio.__setitem__ and `del Portfolio.owned_assets[ticker]`.
SetHolding(h, ticker, oa) ==
    [t \in DOMAIN h \cup {ticker} |-> IF t = ticker THEN oa ELSE h[t]]

DelHolding(h, ticker) == [t \in DOMAIN h \ {ticker} |-> h[t]]

(***************************************************************************)
(* Blotter._open_new_position                                              *)
(***************************************************************************)
\* The cash and the holdings are written before Trade.from_order is called,
\* so they stay written when it raises.
_open_new_position(price_per_share, trade_date, id) ==
    LET order == objs[id]
        asset == order.asset
        position == IF order.action = "SELL" THEN "SHORT" ELSE "LONG"
        owned_asset == OwnedAsset(asset.ticker,
                                  get_available_volume(order, trade_date),
                                  price_per_share, position)
    IN /\ cash' = cash + total_position_cost(owned_asset)
       /\ owned_assets' = SetHolding(owned_assets, asset.ticker, owned_asset)
       /\ last' = IF InvalidQuantity(order, trade_date)
                  THEN Raised("_open_new_position", "InvalidQuantityError", id)
                  ELSE Returned("_open_new_position", id)

OpenNewPosition ==
    \E id \in 1..Len(objs), price_per_share \in Prices, trade_date \in TradeDates :
        /\ cash \in 0..MaxCash
        /\ _open_new_position(price_per_share, trade_date, id)
        /\ UNCHANGED <<orders, objs, trades, current_dt, collaborators>>

(***************************************************************************)
(* Blotter._update_existing_position                                       *)
(***************************************************************************)
\* _update_existing_position writing the closed position back instead of
\* deleting its key (line 268).
_update_existing_position_KeepsClosed(price_per_share, trade_date, held, id) ==
    LET order == objs[id]
        owned_asset == owned_asset_make_trade(
                           held, get_available_volume(order, trade_date),
                           price_per_share)
    IN /\ IF owned_asset.shares_owned # 0
          THEN /\ owned_assets' = SetHolding(owned_assets, owned_asset.ticker,
                                             owned_asset)
               /\ cash' = cash + total_position_cost(owned_asset)
          ELSE /\ cash' = cash + total_position_value(owned_asset)
               /\ owned_assets' = SetHolding(owned_assets, owned_asset.ticker,
                                             owned_asset)
       /\ last' = IF InvalidQuantity(order, trade_date)
                  THEN Raised("_update_existing_position", "InvalidQuantityError", id)
                  ELSE Returned("_update_existing_position", id)

_update_existing_position(price_per_share, trade_date, held, id) ==
    LET order == objs[id]
        owned_asset == owned_asset_make_trade(
                           held, get_available_volume(order, trade_date),
                           price_per_share)
    IN /\ IF owned_asset.shares_owned # 0
          THEN /\ owned_assets' = SetHolding(owned_assets, owned_asset.ticker,
                                             owned_asset)
               /\ cash' = cash + total_position_cost(owned_asset)
          ELSE /\ cash' = cash + total_position_value(owned_asset)
               /\ owned_assets' = DelHolding(owned_assets, owned_asset.ticker)
       /\ last' = IF InvalidQuantity(order, trade_date)
                  THEN Raised("_update_existing_position", "InvalidQuantityError", id)
                  ELSE Returned("_update_existing_position", id)

\* The caller passes the holding the Portfolio has for the order's asset.
UpdateExistingPosition ==
    \E id \in 1..Len(objs), price_per_share \in Prices, trade_date \in TradeDates :
        /\ cash \in 0..MaxCash
        /\ objs[id].asset.ticker \in DOMAIN owned_assets
        /\ _update_existing_position(price_per_share, trade_date,
                                     owned_assets[objs[id].asset.ticker], id)
        /\ UNCHANGED <<orders, objs, trades, current_dt, collaborators>>

(***************************************************************************)
(* Blotter.__init__ and the setters of asset_finder and portfolio          *)
(***************************************************************************)
\* The type of an argument handed to the constructor.
ArgTypes == {"None", "AssetFinder", "Portfolio", "str"}

\* __init__ binding the trade history once for all Blotters (a list held by
\* the class), so that a new Blotter starts with the trades of the old one.
__init___SharedHistory(finder_arg, portfolio_arg) ==
    IF finder_arg \notin {"None", "AssetFinder"}
    THEN /\ last' = Constructed("NotAFinderError", finder_arg, portfolio_arg)
         /\ UNCHANGED <<orders, objs, trades, cash, owned_assets, current_dt,
                        collaborators>>
    ELSE IF portfolio_arg \notin {"None", "Portfolio"}
    THEN /\ last' = Constructed("NotAPortfolioError", finder_arg, portfolio_arg)
         /\ UNCHANGED <<orders, objs, trades, cash, owned_assets, current_dt,
                        collaborators>>
    ELSE /\ asset_finder' = IF finder_arg = "None" THEN "AssetFinder()"
                                                   ELSE "argument"
         /\ portfolio' = IF portfolio_arg = "None" THEN "Portfolio()"
                                                   ELSE "argument"
         /\ cash' = StartCash
         /\ owned_assets' = [t \in {} |-> None]
         /\ orders' = <<>>
         /\ objs' = <<>>
         /\ current_dt' = None
         /\ last' = Constructed(NoError, finder_arg, portfolio_arg)
         /\ UNCHANGED trades

\* Blotter(asset_finder, portfolio): the asset_finder setter runs first, then
\* the portfolio setter, then the table, the history and the clock are set.
\* A setter that raises leaves no Blotter behind; the one in use stays as it
\* is.  A new Blotter takes the place of the one in use, whose Orders are
\* dropped with it.  The Portfolio given and the default Portfolio() both
\* start with StartCash and no holdings.
__init__(finder_arg, portfolio_arg) ==
    IF finder_arg \notin {"None", "AssetFinder"}
    THEN /\ last' = Constructed("NotAFinderError", finder_arg, portfolio_arg)
         /\ UNCHANGED <<orders, objs, trades, cash, owned_assets, current_dt,
                        collaborators>>
    ELSE IF portfolio_arg \notin {"None", "Portfolio"}
    THEN /\ last' = Constructed("NotAPortfolioError", finder_arg, portfolio_arg)
         /\ UNCHANGED <<orders, objs, trades, cash, owned_assets, current_dt,
                        collaborators>>
    ELSE /\ asset_finder' = IF finder_arg = "None" THEN "AssetFinder()"
                                                   ELSE "argument"
         /\ portfolio' = IF portfolio_arg = "None" THEN "Portfolio()"
                                                   ELSE "argument"
         /\ cash' = StartCash
         /\ owned_assets' = [t \in {} |-> None]
         /\ orders' = <<>>
         /\ objs' = <<>>
         /\ trades' = <<>>
         /\ current_dt' = None
         /\ last' = Constructed(NoError, finder_arg, portfolio_arg)

Construct ==
    \E finder_arg \in ArgTypes, portfolio_arg \in ArgTypes :
        __init__(finder_arg, portfolio_arg)

(***************************************************************************)
(* Blotter.__getitem__, __setitem__ and __delitem__ as callers use them    *)
(***************************************************************************)
\* How an item access ended, with the key it was given and the value it
\* returned (__getitem__) or stored (__setitem__).
ItemResult(op, e, key, value) ==
    [op |-> op, err |-> e, order |-> 0, warned |-> FALSE, checked |-> {},
     key |-> key, value |-> value]

\* `key in self.orders` for the key as given: the dict is keyed by ticker
\* strings, and an Asset object is none of them.
Tracked(d, key) == key.form = "str" /\ HasKey(d, key.ticker)

\* del d[k]
Remove(d, k) == SelectSeq(d, LAMBDA e : e.key # k)

\* The values a caller stores: tuples of Orders constructed so far.
ItemValues == {<<>>} \cup {<<id>> : id \in 1..Len(objs)}

\* return self.orders[key]: the key is looked up as given.
__getitem__(key) ==
    /\ last' = IF Tracked(orders, key)
               THEN ItemResult("__getitem__", NoError, key, Get(orders, key.ticker))
               ELSE ItemResult("__getitem__", "KeyError", key, <<>>)
    /\ UNCHANGED orders

\* An Asset key is replaced by its ticker (lines 74-77).
__setitem__(key, value) ==
    /\ orders' = SetItem(orders, key, value)
    /\ last' = ItemResult("__setitem__", NoError, key, value)

\* del self.orders[key]: the key is looked up as given.
__delitem__(key) ==
    IF Tracked(orders, key)
    THEN /\ orders' = Remove(orders, key.ticker)
         /\ last' = ItemResult("__delitem__", NoError, key, <<>>)
    ELSE /\ last' = ItemResult("__delitem__", "KeyError", key, <<>>)
         /\ UNCHANGED orders

GetItemCall ==
    \E key \in Keys :
        /\ __getitem__(key)
        /\ UNCHANGED <<objs, trades, cash, owned_assets, current_dt, collaborators>>

SetItemCall ==
    \E key \in Keys, value \in ItemValues :
        /\ __setitem__(key, value)
        /\ UNCHANGED <<objs, trades, cash, owned_assets, current_dt, collaborators>>

DelItemCall ==
    \E key \in Keys :
        /\ __delitem__(key)
        /\ UNCHANGED <<objs, trades, cash, owned_assets, current_dt, collaborators>>

(***************************************************************************)
(* Spec: the operations of the Blotter that callers use.  PositionSpec:    *)
(* the position helpers as well, which no other method of the Blotter      *)
(* calls.                                                                  *)
(***************************************************************************)
Next ==
    \/ Len(objs) < MaxOrders /\ PlaceOrder
    \/ MakeTrade
    \/ PurgeClosedOrders
    \/ CheckOrderTriggers

Spec == Init /\ [][Next]_vars

PositionNext ==
    \/ Len(objs) < MaxPositionOrders /\ PlaceOrder
    \/ MakeTrade
    \/ OpenNewPosition
    \/ UpdateExistingPosition

PositionSpec == Init /\ [][PositionNext]_vars

\* ConstructSpec: runs in which new Blotters are constructed.
ConstructNext ==
    \/ Construct
    \/ Len(objs) < MaxPositionOrders /\ PlaceOrder
    \/ MakeTrade

ConstructSpec == Init /\ [][ConstructNext]_vars

\* ItemSpec: the table read, written and deleted from by key.
ItemNext ==
    \/ Len(objs) < MaxPositionOrders /\ PlaceOrder
    \/ GetItemCall
    \/ SetItemCall
    \/ DelItemCall

ItemSpec == Init /\ [][ItemNext]_vars

(***************************************************************************)
(* The claims.                                                             *)
(***************************************************************************)
\* The step just taken appended a Trade: make_trade accepted a fill.
Accepted == Len(trades') = Len(trades) + 1
NewTrade == trades'[Len(trades')]

\* C1: when make_trade is rejected by the liquidity check, the order (filled,
\* open_amount, accumulated commission, open flag), the cash, the holdings
\* and the trade history are what they were before the call.
C1_RejectionChangesNothing ==
    [][(last'.op = "make_trade" /\ last'.warned)
         => /\ objs' = objs
            /\ cash' = cash
            /\ owned_assets' = owned_assets
            /\ trades' = trades]_vars

\* C2: starting from non-negative cash the cash never becomes negative, and
\* every BUY trade make_trade accepts satisfies
\* cash_before >= commission + price_per_share * traded quantity.
C2_AcceptedBuyIsCovered ==
    [][/\ cash >= 0 => cash' >= 0
       /\ (Accepted /\ NewTrade.action = "BUY")
            => cash >= NewTrade.commission + NewTrade.price * NewTrade.qty]_vars

\* C2 witness: a BUY trade has been accepted, and it took all the cash.
C2_Witness ==
    /\ last.op = "make_trade" /\ last.err = NoError /\ ~last.warned
    /\ trades # <<>>
    /\ trades[Len(trades)].action = "BUY"
    /\ cash = 0

\* C3: every order has 0 <= filled <= requested quantity and
\* open_amount = requested - filled, in every reachable state.
C3_FilledWithinRequested ==
    \A id \in 1..Len(objs) :
        /\ 0 <= objs[id].filled
        /\ objs[id].filled <= objs[id].qty
        /\ open_amount(objs[id]) = objs[id].qty - objs[id].filled

\* C3 witness: make_trade was called again on an order that is already
\* filled to its requested quantity.
C3_Witness ==
    /\ last.op = "make_trade" /\ last.err = "InvalidQuantityError"
    /\ objs[last.order].filled = objs[last.order].qty
    /\ objs[last.order].qty > 1

\* C4: place_order for an instrument that has active orders leaves them in
\* the instrument's sequence, unchanged and in order, and adds the new order
\* last, for a ticker string and for an Asset alike; the orders of every
\* other instrument are unchanged.
C4_PlaceOrderAppends ==
    [][Len(objs') = Len(objs) + 1
         => LET id == Len(objs')
                t == objs'[id].asset.ticker
                before == IF HasKey(orders, t) THEN Get(orders, t) ELSE <<>>
            IN /\ HasKey(orders', t)
               /\ Get(orders', t) = Append(before, id)
               /\ \A u \in Tickers \ {t} :
                    /\ HasKey(orders', u) = HasKey(orders, u)
                    /\ HasKey(orders, u) => Get(orders', u) = Get(orders, u)
               /\ \A i \in 1..Len(objs) : objs'[i] = objs[i]]_vars

\* C5: one call of check_order_triggers invokes check_triggers once on every
\* order of the table and completes without error, for any table built by
\* place_order.
C5_EveryOrderChecked ==
    [][last'.op = "check_order_triggers"
         => /\ last'.err = NoError
            /\ last'.checked = InTable(orders)]_vars

\* The table purge_closed_orders is to leave: every tuple cut down to its
\* orders that are open with a nonzero open_amount, in their order, and the
\* instruments left with none dropped.
RECURSIVE KeepOpen(_, _)
KeepOpen(os, ids) ==
    IF ids = <<>> THEN <<>>
    ELSE IF os[ids[1]].open /\ open_amount(os[ids[1]]) # 0
         THEN <<ids[1]>> \o KeepOpen(os, Tail(ids))
         ELSE KeepOpen(os, Tail(ids))

RECURSIVE Purged(_, _)
Purged(os, d) ==
    IF d = <<>> THEN <<>>
    ELSE IF KeepOpen(os, d[1].val) = <<>>
         THEN Purged(os, Tail(d))
         ELSE <<[key |-> d[1].key, val |-> KeepOpen(os, d[1].val)]>>
                  \o Purged(os, Tail(d))

\* C6: after purge_closed_orders the table holds exactly the orders that
\* were in it and are open with a nonzero open_amount, several orders of one
\* instrument in their insertion order.
C6_PurgeKeepsExactlyOpen ==
    [][last'.op = "purge_closed_orders"
         => /\ last'.err = NoError
            /\ orders' = Purged(objs, orders)]_vars

\* C7: an order whose open_amount is 0 is closed, and a closed order is
\* absent from the table after the next purge_closed_orders.
C7_ClosedGoneAfterPurge ==
    [][last'.op \in {"purge_closed_orders", "check_order_triggers"}
         => \A id \in InTable(orders') : open_amount(objs'[id]) # 0]_vars

\* C8: when make_trade accepts a fill for an instrument with no holding, the
\* portfolio afterwards holds an OwnedAsset for it with the filled volume as
\* shares, the fill price as average price, LONG for a BUY and SHORT for a
\* SELL.
C8_FillOpensPosition ==
    [][(Accepted /\ NewTrade.ticker \notin DOMAIN owned_assets)
         => /\ NewTrade.ticker \in DOMAIN owned_assets'
            /\ owned_assets'[NewTrade.ticker].shares_owned = NewTrade.qty
            /\ owned_assets'[NewTrade.ticker].average_share_price = NewTrade.price
            /\ owned_assets'[NewTrade.ticker].position =
                   IF NewTrade.action = "BUY" THEN "LONG" ELSE "SHORT"]_vars

\* C9: a fill applied to an open position that brings its shares_owned to
\* zero removes the instrument from the holdings and leaves cash at the cash
\* before plus the position's total_position_value; a fill that leaves
\* shares_owned nonzero keeps the holding, updated.
C9_CloseRemovesHolding ==
    [][last'.op = "_update_existing_position"
         => LET order == objs[last'.order]
                t == order.asset.ticker
            IN \E p \in Prices :
                 LET owned_asset == owned_asset_make_trade(
                                        owned_assets[t], open_amount(order), p)
                 IN IF owned_asset.shares_owned = 0
                    THEN /\ t \notin DOMAIN owned_assets'
                         /\ cash' = cash + total_position_value(owned_asset)
                    ELSE /\ t \in DOMAIN owned_assets'
                         /\ owned_assets'[t] = owned_asset]_vars

\* C9 witness: a position was opened and a fill of an open order has closed
\* it; the instrument is no longer held.
C9_Witness ==
    /\ last.op = "_update_existing_position" /\ last.err = NoError
    /\ open_amount(objs[last.order]) > 0
    /\ objs[last.order].asset.ticker \notin DOMAIN owned_assets

RECURSIVE TotalTradeValue(_)
TotalTradeValue(ts) ==
    IF ts = <<>> THEN 0 ELSE trade_value(ts[1]) + TotalTradeValue(Tail(ts))

\* C10: in every reachable state the cash is the initial cash plus the sum
\* of trade_value() over the trade history.
C10_CashMatchesTradeHistory == cash = StartCash + TotalTradeValue(trades)

\* C11: the trade history is append-only: across place_order,
\* check_order_triggers, make_trade and purge_closed_orders the history
\* after a step has the history before it as a prefix, so no trade is ever
\* removed, reordered or changed, by a purge either.
C11_TradeHistoryAppendOnly ==
    [][/\ Len(trades') >= Len(trades)
       /\ SubSeq(trades', 1, Len(trades)) = trades]_vars

\* C11 witness: a second trade has been appended behind the first, and a
\* purge has been called on the table with both trades in the history.
C11_Witness ==
    /\ Len(trades) = 2
    /\ trades[1] # trades[2]
    /\ last.op = "purge_closed_orders"
    /\ orders # <<>>

\* An open order whose full quantity the cash does not cover at any price of
\* the feed: make_trade rejects it whatever the tick's price is.
Unaffordable(id) ==
    /\ objs[id].open /\ open_amount(objs[id]) > 0
    /\ \A p \in Prices :
         ~check_liquidity(cash, calculate(objs[id], p), p, objs[id].qty)

\* C12: a liquidity rejection inside check_order_triggers raises no error and
\* does not stop the loop: the tick completes, the rejected order has been
\* evaluated and is still in the table after the tick's purge, and every
\* other open order of the table has been handed to make_trade in the same
\* tick (which charges it a commission).
C12_RejectionKeepsTickGoing ==
    [][(/\ last'.op = "check_order_triggers"
        /\ \E id \in InTable(orders) : Unaffordable(id))
         => /\ last'.err = NoError
            /\ \A id \in InTable(orders) :
                 IF Unaffordable(id)
                 THEN id \in last'.checked /\ id \in InTable(orders')
                 ELSE open_amount(objs[id]) > 0
                        => objs'[id].commission > objs[id].commission]_vars

OrdersOf(d, t) ==
    IF HasKey(d, t) THEN {Get(d, t)[j] : j \in 1..Len(Get(d, t))} ELSE {}

\* C14: a price update is for one instrument and only affects that
\* instrument: there is an instrument whose orders are the ones the tick
\* evaluates, and the orders of every other instrument, the fills of their
\* orders and their holdings are unchanged by the tick.
C14_TickAffectsOneInstrument ==
    [][last'.op = "check_order_triggers"
         => \E t \in Tickers :
              /\ last'.checked = OrdersOf(orders, t)
              /\ \A u \in Tickers \ {t} :
                   /\ OrdersOf(orders', u) = OrdersOf(orders, u)
                   /\ \A id \in OrdersOf(orders, u) : objs'[id] = objs[id]
                   /\ (u \in DOMAIN owned_assets') = (u \in DOMAIN owned_assets)
              /\ \A i \in (Len(trades) + 1)..Len(trades') :
                   trades'[i].ticker = t]_vars

\* C15: when place_order fails with a validation error (non-positive
\* quantity, missing stop or limit price, unknown action) the table, the
\* Order objects placed before, the trade history, the cash and the holdings
\* are what they were before the call.
C15_FailedPlaceOrderChangesNothing ==
    [][(last'.op = "place_order" /\ last'.err # NoError)
         => /\ orders' = orders
            /\ objs' = objs
            /\ trades' = trades
            /\ cash' = cash
            /\ owned_assets' = owned_assets]_vars

\* C15 witness: place_order has failed on a Blotter that holds an order and
\* a trade of it; the order is still in the table.
C15_Witness ==
    /\ last.op = "place_order" /\ last.err = "InvalidOrderError"
    /\ Len(objs) = 1
    /\ trades # <<>>
    /\ InTable(orders) = {1}

\* C16: constructing a Blotter with an asset_finder that is neither None nor
\* an AssetFinder fails with NotAFinderError; with an acceptable asset_finder
\* and a portfolio that is neither None nor a Portfolio it fails with
\* NotAPortfolioError; otherwise it succeeds, None for either gives a fresh
\* default collaborator, and the new Blotter has an empty table and an empty
\* trade history.
C16_ConstructionValidates ==
    [][last'.op = "__init__"
         => LET a == last'.args
            IN IF a.asset_finder \notin {"None", "AssetFinder"}
               THEN last'.err = "NotAFinderError"
               ELSE IF a.portfolio \notin {"None", "Portfolio"}
               THEN last'.err = "NotAPortfolioError"
               ELSE /\ last'.err = NoError
                    /\ a.asset_finder = "None" <=> asset_finder' = "AssetFinder()"
                    /\ a.portfolio = "None" <=> portfolio' = "Portfolio()"
                    /\ orders' = <<>>
                    /\ trades' = <<>>]_vars

\* C16 witness: a Blotter has been constructed with no arguments, and has
\* its default collaborators, no orders and no trades.
C16_Witness ==
    /\ last.op = "__init__" /\ last.err = NoError
    /\ last.args.asset_finder = "None" /\ last.args.portfolio = "None"
    /\ asset_finder = "AssetFinder()" /\ portfolio = "Portfolio()"
    /\ orders = <<>> /\ trades = <<>>

\* C17: cash and position change together or not at all in the position
\* helpers: when _open_new_position or _update_existing_position fails while
\* building its Trade, the cash and the holdings are what they were before
\* the call.
C17_FailedHelperChangesNothing ==
    [][(/\ last'.op \in {"_open_new_position", "_update_existing_position"}
        /\ last'.err # NoError)
         => cash' = cash /\ owned_assets' = owned_assets]_vars

\* C18: check_order_triggers(dt, ...) advances the Blotter's simulated time:
\* after it returns, the current timestamp is the dt of the tick; an order
\* placed without an explicit date_placed is created at the current
\* timestamp; and no operation but a tick changes the current timestamp.
C18_TickAdvancesTime ==
    [][/\ (last'.op = "check_order_triggers" /\ last'.err = NoError)
            => current_dt' \in {Some(dt) : dt \in Dates}
       /\ Len(objs') = Len(objs) + 1
            => objs'[Len(objs')].created = current_dt
       /\ last'.op # "check_order_triggers"
            => current_dt' = current_dt]_vars

\* C19: order lookup is consistent across key types: for a key given as an
\* Asset or as its ticker string, blotter[k] = v stores v under the
\* instrument, blotter[k] returns what is stored under the instrument, and
\* del blotter[k] removes that entry and no other; only a key of an
\* untracked instrument gives a key-not-found error.
C19_LookupConsistentAcrossKeyTypes ==
    [][LET t == last'.key.ticker
       IN /\ last'.op = "__setitem__"
               => /\ last'.err = NoError
                  /\ HasKey(orders', t) /\ Get(orders', t) = last'.value
          /\ last'.op = "__getitem__"
               => IF HasKey(orders, t)
                  THEN last'.err = NoError /\ last'.value = Get(orders, t)
                  ELSE last'.err = "KeyError"
          /\ last'.op = "__delitem__"
               => IF HasKey(orders, t)
                  THEN last'.err = NoError /\ orders' = Remove(orders, t)
                  ELSE last'.err = "KeyError" /\ orders' = orders]_vars

\* Every value of table d is a non-empty sequence of Orders of os, all of
\* them for the instrument of the value's key and in the order they were
\* placed in; no instrument has two keys.
OrderSequences(d, os) ==
    /\ \A i, k \in 1..Len(d) : d[i].key = d[k].key => i = k
    /\ \A i \in 1..Len(d) :
         /\ d[i].val # <<>>
         /\ \A j \in 1..Len(d[i].val) :
              /\ d[i].val[j] \in 1..Len(os)
              /\ os[d[i].val[j]].asset.ticker = d[i].key
              /\ j > 1 => d[i].val[j - 1] < d[i].val[j]

=============================================================================
